---- MODULE Spec2Model ----
(***************************************************************************)
(* Model of the Odoo authentication gateway: server.js (the service) and   *)
(* server-test.js (the variant the jest suite drives).  Exactly one of the *)
(* two applications runs in a behaviour; `app` says which.                 *)
(*                                                                         *)
(* Strings that the code transforms (user names, passwords, error          *)
(* messages) are tuples of one-character strings.  Time is in              *)
(* milliseconds; the model clock advances in steps of Tick.                *)
(***************************************************************************)
EXTENDS Integers, Sequences, FiniteSets, TLC

VARIABLES
  app,        \* "server" (server.js) or "servertest" (server-test.js)
  nodeEnv,    \* process.env.NODE_ENV
  clock,      \* Date.now(), ms since the process started
  sessions,   \* the sessions Map: token -> session record
  general,    \* hit counters of generalLimiter / testLimiter, per caller
  loginLim,   \* hit counters of loginLimiter, per caller
  logins,     \* the POST /auth/login requests that reached odoo.connect()
  tests,      \* the POST /odoo/test requests awaiting their upstream queries
  resp,       \* the answer sent by the last step, if it sent one
  loggedOut,  \* history: the live tokens that answered logouts have named
  attempts,   \* history: logins past the general limiter at this clock value
  issued,     \* history: token -> the users a 200 login answer gave it with
  nextSweep,  \* due time of the next session-cleanup interval callback
  nreq        \* history: number of requests received so far

vars == <<app, nodeEnv, clock, sessions, general, loginLim, logins, tests,
          resp, loggedOut, attempts, issued, nextSweep, nreq>>

-----------------------------------------------------------------------------
(* Bounds of the model *)

MaxTicks == 5        \* the clock stops after this many steps
MaxLogins == 2       \* login requests that reach the verifier
MaxRequests == 3     \* requests of any kind (Spec)
MaxRand == 2         \* distinct values Math.random() can yield
MaxAttempts == 7     \* login requests (SpecAttempts)
MaxTests == 1        \* POST /odoo/test requests awaiting their queries
FoundIds == 2        \* records an upstream query finds
AttemptTicks == 1    \* steps of the clock (SpecAttempts)
OdooTicks == 2       \* steps of the clock (SpecOdoo)
ReaperTicks == 8     \* steps of the clock (SpecReaper)
MaxShared == 13      \* requests of the two callers (SpecShared)

(* Program constants *)

windowMs == 15 * 60 * 1000
Tick == windowMs                  \* step of the model clock: one window
loginMax == 5
generalMax == 100
testMax == 1000
oneHour == 60 * 60 * 1000
sweepInterval == 30 * 60 * 1000
usernameMin == 3
usernameMax == 100
passwordMin == 1
passwordMax == 255
testUsernameMin == 1
testUsernameMax == 1000

Callers == {"A", "B"}
Apps == {"server", "servertest"}
Envs == {"production", "development", "test"}

-----------------------------------------------------------------------------
(* Strings *)

Rep(c, n) == [i \in 1..n |-> c]

Lower(c) ==
  CASE c = "A" -> "a" [] c = "B" -> "b" [] c = "C" -> "c" [] c = "D" -> "d"
    [] c = "E" -> "e" [] c = "I" -> "i" [] c = "K" -> "k" [] c = "N" -> "n"
    [] c = "O" -> "o" [] c = "P" -> "p" [] c = "R" -> "r" [] c = "S" -> "s"
    [] c = "T" -> "t" [] c = "U" -> "u" [] c = "W" -> "w" [] c = "X" -> "x"
    [] c = "Y" -> "y"
    [] OTHER -> c

LowerStr(s) == [i \in 1..Len(s) |-> Lower(s[i])]

Letters == {"a", "b", "c", "d", "e", "i", "k", "n", "o", "p", "r", "s", "t",
            "u", "w", "x", "y"}

\* validator.js escape(): & < > " ' / \ ` become HTML entities
EscapeChar(c) ==
  CASE c = "&" -> <<"&", "a", "m", "p", ";">>
    [] c = "<" -> <<"&", "l", "t", ";">>
    [] c = ">" -> <<"&", "g", "t", ";">>
    [] c = "\"" -> <<"&", "q", "u", "o", "t", ";">>
    [] c = "'" -> <<"&", "#", "x", "2", "7", ";">>
    [] c = "/" -> <<"&", "#", "x", "2", "F", ";">>
    [] OTHER -> <<c>>

RECURSIVE escape(_)
escape(s) ==
  IF s = <<>> THEN <<>>
  ELSE IF Len(s) = 1 THEN EscapeChar(s[1])
  ELSE LET half == Len(s) \div 2
       IN  escape(SubSeq(s, 1, half)) \o escape(SubSeq(s, half + 1, Len(s)))

-----------------------------------------------------------------------------
(* express-validator chains of validateLogin *)

Missing == <<"undefined">>       \* a field the request body does not carry
ToStr(v) == IF v = Missing THEN <<>> ELSE v

Digits == {"0", "1", "2", "7"}
UserPartChars == Letters \cup Digits \cup
  {"!", "#", "$", "%", "&", "'", "+", "-", "/", "=", "?", "^", "_", "~", "."}
DomainChars == Letters \cup Digits \cup {"-", "."}

LastIndex(s, c) ==
  LET at == {i \in 1..Len(s) : s[i] = c}
  IN  IF at = {} THEN 0 ELSE CHOOSE i \in at : \A j \in at : j <= i

\* validator.js isFQDN with require_tld
isFQDN(d) ==
  LET dot == LastIndex(d, ".")
  IN  /\ dot > 1
      /\ Len(d) - dot >= 2
      /\ \A i \in (dot + 1)..Len(d) : d[i] \in Letters
      /\ \A i \in 1..Len(d) : d[i] \in DomainChars
      /\ d[1] # "." /\ d[1] # "-"
      /\ \A i \in 1..(Len(d) - 1) : ~(d[i] = "." /\ d[i + 1] = ".")
      /\ \A i \in 1..(Len(d) - 63) : \E j \in i..(i + 63) : d[j] = "."

\* validator.js isEmail with the default options
isEmail(v) ==
  LET s == LowerStr(ToStr(v))
      at == LastIndex(s, "@")
      user == SubSeq(s, 1, at - 1)
      domain == SubSeq(s, at + 1, Len(s))
  IN  /\ at > 1
      /\ Len(user) <= 64
      /\ Len(domain) <= 254
      /\ \A i \in 1..Len(user) : user[i] \in UserPartChars
      /\ user[1] # "." /\ user[Len(user)] # "."
      /\ \A i \in 1..(Len(user) - 1) : ~(user[i] = "." /\ user[i + 1] = ".")
      /\ isFQDN(domain)

isLength(v, min, max) == Len(ToStr(v)) >= min /\ Len(ToStr(v)) <= max

\* validator.js normalizeEmail, all_lowercase: false for a value that is no
\* e-mail address (the provider-specific rules apply to none of Usernames)
normalizeEmail(v) ==
  IF isEmail(v) THEN LowerStr(v) ELSE <<"f", "a", "l", "s", "e">>

\* the sanitizers leave an absent field absent
sanitizeEmail(v) == IF v = Missing THEN Missing ELSE normalizeEmail(v)
sanitizeEscape(v) == IF v = Missing THEN Missing ELSE escape(v)

\* validateLogin without the bound on the password's length
validateLoginUnbounded(u, p) ==
  [ok |-> /\ isEmail(u)
          /\ isLength(u, usernameMin, usernameMax)
          /\ isLength(p, passwordMin, passwordMax + 1),
   username |-> sanitizeEscape(sanitizeEmail(u)),
   password |-> sanitizeEscape(p)]

\* server.js validateLogin: the errors and the body the handler then reads
validateLogin(u, p) ==
  [ok |-> /\ isEmail(u)
          /\ isLength(u, usernameMin, usernameMax)
          /\ isLength(p, passwordMin, passwordMax),
   username |-> sanitizeEscape(sanitizeEmail(u)),
   password |-> sanitizeEscape(p)]

\* server-test.js validateLogin
testValidateLogin(u, p) ==
  [ok |-> /\ isLength(u, testUsernameMin, testUsernameMax)
          /\ isLength(p, passwordMin, passwordMax),
   username |-> sanitizeEscape(u),
   password |-> sanitizeEscape(p)]

-----------------------------------------------------------------------------
(* sanitizeError *)

Redacted == <<"[", "R", "E", "D", "A", "C", "T", "E", "D", "]">>
sensitivePatterns ==
  <<<<"p", "a", "s", "s", "w", "o", "r", "d">>, <<"t", "o", "k", "e", "n">>, <<"s", "e", "c", "r", "e", "t">>, <<"k", "e", "y">>, <<"d", "a", "t", "a", "b", "a", "s", "e">>, <<"c", "o", "n", "n", "e", "c", "t", "i", "o", "n">>>>

MatchesAt(s, pat) ==
  Len(s) >= Len(pat) /\ \A i \in 1..Len(pat) : Lower(s[i]) = pat[i]

RECURSIVE ReplaceAll(_, _)
ReplaceAll(s, pat) ==
  IF s = <<>> THEN <<>>
  ELSE IF MatchesAt(s, pat)
       THEN Redacted \o ReplaceAll(SubSeq(s, Len(pat) + 1, Len(s)), pat)
       ELSE <<Head(s)>> \o ReplaceAll(Tail(s), pat)

RECURSIVE ReplaceEach(_, _)
ReplaceEach(s, pats) ==
  IF pats = <<>> THEN s ELSE ReplaceEach(ReplaceAll(s, Head(pats)), Tail(pats))

DefaultMessage == <<"A", "n", " ", "e", "r", "r", "o", "r", " ", "o", "c", "c", "u", "r", "r", "e", "d">>
sanitizeError(message) ==
  ReplaceEach(IF message = <<>> THEN DefaultMessage ELSE message,
              sensitivePatterns)

ConnectionTimeout == <<"C", "o", "n", "n", "e", "c", "t", "i", "o", "n", " ", "t", "i", "m", "e", "o", "u", "t">>
NotAFunction == <<"u", "s", "e", "r", "D", "a", "t", "a", ".", "l", "o", "g", "i", "n", ".", "r", "e", "p", "l", "a", "c", "e", " ", "i", "s", " ", "n", "o", "t", " ", "a", " ", "f", "u", "n", "c", "t", "i", "o", "n">>
UpstreamErrors == {<<"b", "a", "d", " ", "k", "e", "y">>}

-----------------------------------------------------------------------------
(* Tokens, headers, session records *)

NoToken == [k |-> "none", t |-> 0, r |-> 0]        \* undefined
\* Date.now().toString(36) + Math.random().toString(36).substr(2)
Opaque(t, r) == [k |-> "opaque", t |-> t, r |-> r]
Junk == [k |-> "junk", t |-> 0, r |-> 0]           \* 'invalid-token'
\* a token signed with JWT_SECRET whose exp claim is t (seconds)
Signed(t) == [k |-> "jwt", t |-> t, r |-> 0]
\* a string holding a space, which is no key of the store
OtherText == [k |-> "text", t |-> 0, r |-> 0]

\* The authorization header: absent, or "<form> <tok>"
NoHeader == [form |-> "none", tok |-> NoToken]
Bearer(tok) == [form |-> "Bearer", tok |-> tok]
LowerBearer(tok) == [form |-> "bearer", tok |-> tok]

\* authHeader && authHeader.split(' ')[1]
SplitToken(h) == IF h.form = "none" THEN NoToken ELSE h.tok

\* req.headers.authorization?.replace('Bearer ', '')
ReplaceBearer(h) ==
  IF h.form = "none" THEN NoToken
  ELSE IF h.form = "Bearer" THEN h.tok ELSE OtherText

NoUser == [id |-> 0, name |-> "", email |-> "", login |-> ""]
NoCreds == [username |-> <<>>, password |-> <<>>]
NoSession ==
  [user |-> NoUser, odooClient |-> NoCreds, createdAt |-> -1, lastAccess |-> -1]
Absent == -1                      \* a field the record does not have

Has(tok) == tok \in DOMAIN sessions
Get(tok) == IF Has(tok) THEN sessions[tok] ELSE NoSession
Delete(store, tok) == [x \in (DOMAIN store) \ {tok} |-> store[x]]
Set(store, tok, rec) ==
  [x \in (DOMAIN store) \cup {tok} |-> IF x = tok THEN rec ELSE store[x]]

\* a verification that holds only while the store holds a session
jwtVerifyWhileSessions(tok) ==
  tok.k = "jwt" /\ (clock \div 1000) < tok.t /\ sessions # <<>>

\* jwt.verify(token, JWT_SECRET): signature and exp against the clock
jwtVerify(tok) == tok.k = "jwt" /\ (clock \div 1000) < tok.t

\* the session-expiry test of the gate
gateExpired(session) == clock - session.createdAt > oneHour

\* a gate that accepts session tokens only
authenticateTokenStoreOnly(h) ==
  LET token == SplitToken(h)
  IN  IF token = NoToken
      THEN [allow |-> FALSE, status |-> 401, error |-> "Access token required",
            user |-> NoUser, evict |-> NoToken]
      ELSE IF Has(token) /\ gateExpired(sessions[token])
      THEN [allow |-> FALSE, status |-> 401, error |-> "Token expired",
            user |-> NoUser, evict |-> token]
      ELSE IF Has(token)
      THEN [allow |-> TRUE, status |-> 0, error |-> "",
            user |-> sessions[token].user, evict |-> NoToken]
      ELSE [allow |-> FALSE, status |-> 403,
            error |-> "Invalid or expired token",
            user |-> NoUser, evict |-> NoToken]

\* a gate whose missing-token branch does not return
authenticateTokenOpen(h) ==
  LET token == SplitToken(h)
  IN  IF token # NoToken /\ Has(token) /\ gateExpired(sessions[token])
      THEN [allow |-> FALSE, status |-> 401, error |-> "Token expired",
            user |-> NoUser, evict |-> token]
      ELSE IF token # NoToken /\ ~Has(token) /\ ~jwtVerify(token)
      THEN [allow |-> FALSE, status |-> 403,
            error |-> "Invalid or expired token",
            user |-> NoUser, evict |-> NoToken]
      ELSE [allow |-> TRUE, status |-> 0, error |-> "",
            user |-> IF Has(token) THEN sessions[token].user ELSE NoUser,
            evict |-> NoToken]

\* server.js authenticateToken: the verdict, and the entry it evicts
authenticateToken(h) ==
  LET token == SplitToken(h)
  IN  IF token = NoToken
      THEN [allow |-> FALSE, status |-> 401, error |-> "Access token required",
            user |-> NoUser, evict |-> NoToken]
      ELSE IF Has(token)
      THEN IF gateExpired(sessions[token])
           THEN [allow |-> FALSE, status |-> 401, error |-> "Token expired",
                 user |-> NoUser, evict |-> token]
           ELSE [allow |-> TRUE, status |-> 0, error |-> "",
                 user |-> sessions[token].user, evict |-> NoToken]
      ELSE IF jwtVerify(token)
      THEN [allow |-> TRUE, status |-> 0, error |-> "",
            user |-> [id |-> token.r, name |-> "", email |-> "jwt",
                      login |-> ""],
            evict |-> NoToken]
      ELSE [allow |-> FALSE, status |-> 403,
            error |-> "Invalid or expired token",
            user |-> NoUser, evict |-> NoToken]

-----------------------------------------------------------------------------
(* express-rate-limit: a fixed window per caller *)

NoHits == [hits |-> 0, reset |-> 0]

\* a store with one counter for all callers
HitShared(lim, c, max) ==
  [x \in DOMAIN lim |->
     IF lim[x].hits = 0 \/ clock >= lim[x].reset
     THEN [hits |-> 1, reset |-> clock + windowMs]
     ELSE [lim[x] EXCEPT !.hits = IF @ > max THEN @ ELSE @ + 1]]

\* the store's increment: a new window when none is open
Hit(lim, c, max) ==
  IF lim[c].hits = 0 \/ clock >= lim[c].reset
  THEN [lim EXCEPT ![c] = [hits |-> 1, reset |-> clock + windowMs]]
  ELSE [lim EXCEPT ![c].hits = IF @ > max THEN @ ELSE @ + 1]

\* a limiter that admits one request more than its ceiling
LimitedLate(lim, c, max) == lim[c].hits > max + 1

Limited(lim, c, max) == lim[c].hits > max

\* the store forgets the windows that have closed by `now`
Expire(lim, now) ==
  [c \in DOMAIN lim |-> IF now >= lim[c].reset THEN NoHits ELSE lim[c]]

\* app.use(generalLimiter) / app.use(testLimiter)
generalCeiling == IF app = "server" THEN generalMax ELSE testMax
generalSkip == app = "servertest" /\ nodeEnv = "test"
GeneralHit(c) == IF generalSkip THEN general ELSE Hit(general, c, generalCeiling)
GeneralLimited(c) == ~generalSkip /\ Limited(GeneralHit(c), c, generalCeiling)

-----------------------------------------------------------------------------
(* Answers *)

NoDetails == <<>>                 \* the body carries no details field
NotAString == "(false)"           \* Odoo's value of an unset field

\* the claims of the signed token a login minted, NoJwt when it minted none
NoJwt == [userId |-> 0, email |-> "", iat |-> 0, exp |-> 0]
\* the stats of a POST /odoo/test answer
NoStats ==
  [partnerCount |-> 0, productCount |-> 0, userCount |-> 0, samplePartners |-> 0]

\* resp is the answer the last step sent, NoResp when it sent none: the
\* request (route, caller, header, body token or login body), the answer
\* (status, error, details, user, token, stats), and what the request met:
\* the sessions its header and body tokens named, and which return of the
\* login handler answered (cause).  It also holds what the step produced
\* without sending it: the signed token of a login (jwt) and the count the
\* session cleanup logged (cleaned)
NoResp ==
  [route |-> "none", caller |-> "A", header |-> NoHeader, body |-> NoToken,
   rawUser |-> Missing, rawPass |-> Missing,
   status |-> 0, error |-> "", details |-> NoDetails, user |-> NoUser,
   token |-> NoToken, cause |-> "",
   headSess |-> NoSession, bodySess |-> NoSession,
   jwt |-> NoJwt, stats |-> NoStats, cleaned |-> 0]

Answer(route, c, h, b, status, error, user) ==
  [NoResp EXCEPT !.route = route, !.caller = c, !.header = h, !.body = b,
                 !.status = status, !.error = error, !.user = user,
                 !.headSess = Get(SplitToken(h)), !.bodySess = Get(b)]

Init ==
  /\ app \in Apps
  /\ nodeEnv \in Envs
  /\ clock = 0
  /\ sessions = <<>>
  /\ general = [c \in Callers |-> NoHits]
  /\ loginLim = [c \in Callers |-> NoHits]
  /\ logins = <<>>
  /\ tests = <<>>
  /\ resp = NoResp
  /\ loggedOut = {}
  /\ attempts = [c \in Callers |-> 0]
  /\ issued = <<>>
  /\ nextSweep = sweepInterval
  /\ nreq = 0

\* the tokens a caller can send: every token a login stored, a string that
\* is no token, and a token signed at time 0 with the service's secret
LoggedOutTokens == {x.tok : x \in loggedOut}
Stored == (DOMAIN sessions) \cup (DOMAIN issued) \cup LoggedOutTokens
Tokens == Stored \cup {Junk, Signed(oneHour \div 1000)}
Headers ==
  {NoHeader} \cup {Bearer(t) : t \in Tokens}
             \cup {LowerBearer(t) : t \in DOMAIN sessions}
Bodies == {NoToken, Junk} \cup Stored
\* the headers that carry no token: none, and the scheme alone
NoTokenHeaders == {NoHeader, Bearer(NoToken)}

\* the 429 of the general limiter, on any route
TooManyRequests(route, c, h, b) ==
  /\ resp' = Answer(route, c, h, b, 429,
                    "Too many requests, please try again later", NoUser)
  /\ UNCHANGED <<sessions, loggedOut>>

\* a GET /auth/user whose gate rejects an expired session and keeps it
GetUserServerKeeps(c, h) ==
  LET g == authenticateToken(h)
      session == ReplaceBearer(h)
  IN  /\ sessions' = IF g.allow /\ Has(session)
                     THEN [sessions EXCEPT ![session].lastAccess = clock]
                     ELSE sessions
      /\ resp' = IF g.allow
                 THEN Answer("user", c, h, NoToken, 200, "", g.user)
                 ELSE Answer("user", c, h, NoToken, g.status, g.error, NoUser)
      /\ UNCHANGED loggedOut

\* server.js GET /auth/user
GetUserServer(c, h) ==
  LET g == authenticateToken(h)
      session == ReplaceBearer(h)
  IN  /\ sessions' = IF g.allow /\ Has(session)
                     THEN [sessions EXCEPT ![session].lastAccess = clock]
                     ELSE IF g.evict # NoToken THEN Delete(sessions, g.evict)
                     ELSE sessions
      /\ resp' = IF g.allow
                 THEN Answer("user", c, h, NoToken, 200, "", g.user)
                 ELSE Answer("user", c, h, NoToken, g.status, g.error, NoUser)
      /\ UNCHANGED loggedOut

\* server-test.js GET /auth/user
GetUserTest(c, h) ==
  LET token == ReplaceBearer(h)
  IN  /\ resp' = IF token = NoToken \/ ~Has(token)
                 THEN Answer("user", c, h, NoToken, 401,
                             "Invalid or expired token", NoUser)
                 ELSE Answer("user", c, h, NoToken, 200, "",
                             sessions[token].user)
      /\ UNCHANGED <<sessions, loggedOut>>

GetUser(c, h) ==
  /\ nreq' = nreq + 1
  /\ general' = GeneralHit(c)
  /\ IF GeneralLimited(c) THEN TooManyRequests("user", c, h, NoToken)
     ELSE IF app = "server" THEN GetUserServer(c, h) ELSE GetUserTest(c, h)
  /\ UNCHANGED <<app, nodeEnv, tests, clock, loginLim, logins, attempts, issued,
                 nextSweep>>

\* a logout that reads the body token only
logoutBodyOnly(store, h, b) ==
  IF b # NoToken /\ b \in DOMAIN store THEN Delete(store, b) ELSE store

\* server.js POST /auth/logout: the body token, then the header token
logoutServer(store, h, b) ==
  LET headerToken == SplitToken(h)
      afterBody == IF b # NoToken /\ b \in DOMAIN store THEN Delete(store, b)
                   ELSE store
  IN  IF headerToken # NoToken /\ headerToken \in DOMAIN afterBody
      THEN Delete(afterBody, headerToken) ELSE afterBody

\* server-test.js POST /auth/logout: the body token only
logoutTest(store, h, b) ==
  IF b # NoToken /\ b \in DOMAIN store THEN Delete(store, b) ELSE store

\* a logout that empties the store when it names a session
logoutAll(store, h, b) ==
  IF {b, SplitToken(h)} \cap DOMAIN store # {} THEN <<>> ELSE store

logout(store, h, b) ==
  IF app = "server" THEN logoutServer(store, h, b) ELSE logoutTest(store, h, b)

\* the live tokens a logout request names, and where it carries them
Named(h, b) ==
  {[tok |-> t, body |-> b = t, header |-> SplitToken(h) = t] :
     t \in {b, SplitToken(h)} \cap DOMAIN sessions}

Logout(c, h, b) ==
  /\ nreq' = nreq + 1
  /\ general' = GeneralHit(c)
  /\ IF GeneralLimited(c) THEN TooManyRequests("logout", c, h, b)
     ELSE /\ sessions' = logout(sessions, h, b)
          /\ loggedOut' = loggedOut \cup Named(h, b)
          /\ resp' = Answer("logout", c, h, b, 200, "", NoUser)
  /\ UNCHANGED <<app, nodeEnv, tests, clock, loginLim, logins, attempts, issued,
                 nextSweep>>

-----------------------------------------------------------------------------
(* POST /odoo/test *)

\* the upstream queries of the route, each of which resolves or rejects;
\* server.js does not send the product.template query
Queries == {"partner", "users", "product", "sample"}
QueryOutcomes == [Queries -> {"ok", "fail"}]
Found(q, query) == IF q[query] = "ok" THEN FoundIds ELSE 0

\* a request past the session lookup: it holds the session object it found
NewTest(c, h, token) ==
  [caller |-> c, header |-> h, token |-> token, session |-> sessions[token]]

\* server.js POST /odoo/test up to the first await: the gate, then the
\* handler's own lookup of the session
OdooTestServer(c, h) ==
  LET g == authenticateToken(h)
      token == ReplaceBearer(h)
  IN  /\ sessions' = IF g.evict # NoToken THEN Delete(sessions, g.evict)
                     ELSE sessions
      /\ IF ~g.allow
         THEN /\ resp' = Answer("test", c, h, NoToken, g.status, g.error, NoUser)
              /\ tests' = tests
         ELSE IF token = NoToken \/ ~Has(token)
         THEN /\ resp' = Answer("test", c, h, NoToken, 401,
                                "Invalid or expired token", NoUser)
              /\ tests' = tests
         ELSE /\ resp' = NoResp
              /\ tests' = Append(tests, NewTest(c, h, token))
      /\ UNCHANGED loggedOut

\* server-test.js POST /odoo/test up to the first await
OdooTestTest(c, h) ==
  LET token == ReplaceBearer(h)
  IN  /\ IF token = NoToken \/ ~Has(token)
         THEN /\ resp' = Answer("test", c, h, NoToken, 401,
                                "Invalid or expired token", NoUser)
              /\ tests' = tests
         ELSE /\ resp' = NoResp
              /\ tests' = Append(tests, NewTest(c, h, token))
      /\ UNCHANGED <<sessions, loggedOut>>

OdooTestRequest(c, h) ==
  /\ nreq' = nreq + 1
  /\ general' = GeneralHit(c)
  /\ IF GeneralLimited(c)
     THEN TooManyRequests("test", c, h, NoToken) /\ tests' = tests
     ELSE IF app = "server" THEN OdooTestServer(c, h) ELSE OdooTestTest(c, h)
  /\ UNCHANGED <<app, nodeEnv, clock, loginLim, logins, attempts, issued,
                 nextSweep>>

\* the session object the request holds is still the one the store holds
\* under its token (records are compared without lastAccess, which the
\* object's holders update)
sameObject(t) ==
  /\ Has(t.token)
  /\ [sessions[t.token] EXCEPT !.lastAccess = 0]
       = [t.session EXCEPT !.lastAccess = 0]

\* session.lastAccess = new Date(), after the awaits of server.js
touched(store, t) ==
  IF app = "server" /\ sameObject(t)
  THEN [store EXCEPT ![t.token].lastAccess = clock] ELSE store

\* the answer once the queries have settled: server.js substitutes [] for a
\* query that rejects, server-test.js does so for product.template only
testAnswer(t, q) ==
  IF app = "servertest"
     /\ (q["partner"] = "fail" \/ q["users"] = "fail" \/ q["sample"] = "fail")
  THEN [Answer("test", t.caller, t.header, NoToken, 500,
               "Failed to test Odoo connection", NoUser) EXCEPT
          !.details = CHOOSE m \in UpstreamErrors : TRUE]
  ELSE [Answer("test", t.caller, t.header, NoToken, 200, "", NoUser) EXCEPT
          !.stats = [partnerCount |-> Found(q, "partner"),
                     productCount |-> IF app = "server" THEN 0
                                      ELSE Found(q, "product"),
                     userCount |-> Found(q, "users"),
                     samplePartners |-> Found(q, "sample")]]

OdooTestSettled(j, q) ==
  /\ j \in 1..Len(tests)
  /\ tests' = SubSeq(tests, 1, j - 1) \o SubSeq(tests, j + 1, Len(tests))
  /\ sessions' = touched(sessions, tests[j])
  /\ resp' = testAnswer(tests[j], q)
  /\ UNCHANGED <<app, nodeEnv, clock, general, loginLim, logins, loggedOut,
                 attempts, issued, nextSweep, nreq>>

\* a cleanup pass that also removes a session idle for exactly one hour
sweepExpiredInclusive(store, now) ==
  {tok \in DOMAIN store : now - store[tok].lastAccess >= oneHour}

\* a cleanup pass whose comparison has its operands exchanged
sweepExpiredSwapped(store, now) ==
  {tok \in DOMAIN store : store[tok].lastAccess - now > oneHour}

\* the expired sessions of the cleanup pass
sweepExpired(store, now) ==
  {tok \in DOMAIN store : now - store[tok].lastAccess > oneHour}

\* server.js setInterval callback: session cleanup every 30 minutes
Sweep ==
  /\ app = "server"
  /\ clock >= nextSweep
  /\ sessions' = [tok \in (DOMAIN sessions) \ sweepExpired(sessions, clock)
                    |-> sessions[tok]]
  /\ nextSweep' = nextSweep + sweepInterval
  /\ resp' = [NoResp EXCEPT
                !.cleaned = Cardinality(sweepExpired(sessions, clock))]
  /\ UNCHANGED <<app, nodeEnv, tests, clock, general, loginLim, logins, loggedOut,
                 attempts, issued, nreq>>

\* time passes; a due cleanup callback runs before the next step
AdvanceClock ==
  /\ app = "server" => clock < nextSweep
  /\ clock' = clock + Tick
  /\ general' = Expire(general, clock')
  /\ loginLim' = Expire(loginLim, clock')
  /\ attempts' = [c \in Callers |-> 0]
  /\ resp' = NoResp
  /\ UNCHANGED <<app, nodeEnv, tests, sessions, logins, loggedOut, issued, nextSweep,
                 nreq>>

-----------------------------------------------------------------------------
(* POST /auth/login *)

\* what the upstream can answer
Uids == {7, 8}
Profile(uid) ==
  IF uid = 7 THEN [name |-> "U", email |-> "u@x.co", login |-> "u@x.co"]
  ELSE [name |-> "V", email |-> "v@x.co", login |-> "v@x.co"]
ConnectOutcomes ==
  [kind : {"uid"}, uid : Uids, msg : {<<>>}]
    \cup [kind : {"falsy"}, uid : {0}, msg : {<<>>}]
    \cup [kind : {"throw"}, uid : {0}, msg : UpstreamErrors]
ReadOutcomes ==
  [kind : {"records"}, login : {"string", NotAString}, msg : {<<>>}]
    \cup [kind : {"empty"}, login : {"string"}, msg : {<<>>}]
    \cup [kind : {"throw"}, login : {"string"}, msg : UpstreamErrors]
\* the record odoo.read returns for uid under outcome o
Record(uid, o) ==
  IF o.login = NotAString THEN [Profile(uid) EXCEPT !.login = NotAString]
  ELSE Profile(uid)

\* the request bodies of the callers
UserOK == <<"u", "@", "x", ".", "c", "o">>
UserUpper == <<"U", "@", "x", ".", "c", "o">>
UserNoAt == <<"u", "x">>
UserLong == Rep("a", 60) \o <<"@">> \o Rep("b", 37) \o <<".", "c", "o">>
PassOK == <<"p">>
PassLt == <<"a", "<", "b">>
PassLong == Rep("p", passwordMax + 1)
Usernames == {UserOK, UserUpper, UserNoAt, UserLong, Missing}
Passwords == {PassOK, PassLt, PassLong, <<>>, Missing}

\* a login request in its handler: the body as sent (rawUser, rawPass) and
\* as the handler reads it, the position of the handler (pc), the two racing
\* promises, which of them settled the race, what the verifier was given
\* (sent), and the number of answers sent
NewLogin(c, u, p) ==
  [caller |-> c, rawUser |-> u, rawPass |-> p, username |-> u, password |-> p,
   pc |-> "start", connect |-> "none", timer |-> "none", winner |-> "none",
   uid |-> 0, sent |-> NoCreds, answers |-> 0]

\* an answered login keeps what a late connect result could still touch; a
\* timer still pending then rejects a promise of a settled race, and is
\* not followed further
Answered(l) ==
  [NewLogin("A", Missing, Missing) EXCEPT
     !.pc = "done", !.connect = l.connect,
     !.timer = IF l.timer = "pending" THEN "void" ELSE l.timer,
     !.winner = l.winner, !.answers = l.answers + 1]

\* res.status(status).json({error, details}) of the login handler
LoginAnswer(l, cause, status, error, details) ==
  [NoResp EXCEPT !.route = "login", !.caller = l.caller,
                 !.rawUser = l.rawUser, !.rawPass = l.rawPass,
                 !.status = status, !.error = error, !.details = details,
                 !.cause = cause]

\* the messages of the errors the login handler can catch
ErrorMessages == UpstreamErrors \cup {ConnectionTimeout, NotAFunction}
sanitized == [m \in ErrorMessages |-> sanitizeError(m)]

\* the catch block of the login handler
catchLogin(l, cause, message) ==
  LoginAnswer(l, cause, 401, "Authentication failed",
              IF app = "server"
              THEN IF nodeEnv = "development" THEN sanitized[message]
                   ELSE NoDetails
              ELSE message)

falsy(v) == v = Missing \/ v = <<>>

\* the validation chains on every body of Usernames \X Passwords
validated ==
  [a \in Apps |-> [u \in Usernames |-> [p \in Passwords |->
     IF a = "server" THEN validateLogin(u, p) ELSE testValidateLogin(u, p)]]]

\* the body the handler reads: the validators have sanitized it in place
sanitizedBody(l) ==
  [l EXCEPT !.username = validated[app][l.rawUser][l.rawPass].username,
            !.password = validated[app][l.rawUser][l.rawPass].password]

validationOk(l) == validated[app][l.rawUser][l.rawPass].ok

\* new Odoo({username, password}); odoo.connect(); setTimeout(...)
connecting(l) ==
  [l EXCEPT !.pc = "race", !.connect = "pending",
            !.timer = IF app = "server" THEN "pending" ELSE "none",
            !.sent = [username |-> l.username, password |-> l.password]]

\* a route whose login limiter answers before the general one
earlyReturnLoginFirst(c, u, p) ==
  LET l == sanitizedBody(NewLogin(c, u, p))
  IN  IF app = "server" /\ Limited(Hit(loginLim, c, loginMax), c, loginMax)
      THEN "login429"
      ELSE IF GeneralLimited(c) THEN "general429"
      ELSE IF ~validationOk(l) THEN "invalid"
      ELSE IF falsy(l.username) \/ falsy(l.password) THEN "required"
      ELSE ""

\* which return of the route answers before the first await, "" if none
\* does: the limiters, validationResult, the required-fields check
earlyReturn(c, u, p) ==
  LET l == sanitizedBody(NewLogin(c, u, p))
  IN  IF GeneralLimited(c) THEN "general429"
      ELSE IF app = "server" /\ Limited(Hit(loginLim, c, loginMax), c, loginMax)
      THEN "login429"
      ELSE IF ~validationOk(l) THEN "invalid"
      ELSE IF falsy(l.username) \/ falsy(l.password) THEN "required"
      ELSE ""

earlyAnswer(l, cause) ==
  IF cause = "general429"
  THEN LoginAnswer(l, cause, 429,
                   "Too many requests, please try again later", NoDetails)
  ELSE IF cause = "login429"
  THEN LoginAnswer(l, cause, 429,
                   "Too many login attempts, please try again later", NoDetails)
  ELSE IF cause = "invalid"
  THEN LoginAnswer(l, cause, 400, "Invalid input data",
                   IF app = "server"
                   THEN <<"Username must be a valid email and password is required">>
                   ELSE <<"validation failed">>)
  ELSE LoginAnswer(l, cause, 400, "Username and password are required",
                   NoDetails)

\* a login route whose limiter does not count the requests answered 400
LoginRequestSkipInvalid(c, u, p) ==
  LET cause == earlyReturn(c, u, p)
      l == sanitizedBody(NewLogin(c, u, p))
  IN  /\ general' = GeneralHit(c)
      /\ loginLim' = IF app = "server" /\ ~GeneralLimited(c)
                        /\ cause \notin {"invalid", "required"}
                     THEN Hit(loginLim, c, loginMax) ELSE loginLim
      /\ IF cause = ""
         THEN /\ logins' = Append(logins, connecting(l))
              /\ resp' = NoResp
         ELSE /\ logins' = logins
              /\ resp' = earlyAnswer(l, cause)
      /\ attempts' = IF GeneralLimited(c) \/ attempts[c] > loginMax
                     THEN attempts ELSE [attempts EXCEPT ![c] = @ + 1]
      /\ nreq' = nreq + 1
      /\ UNCHANGED <<app, nodeEnv, tests, clock, sessions, loggedOut, issued,
                     nextSweep>>

\* app.post('/auth/login', loginLimiter, validateLogin, handler), up to the
\* first await
LoginRequest(c, u, p) ==
  LET cause == earlyReturn(c, u, p)
      l == sanitizedBody(NewLogin(c, u, p))
  IN  /\ general' = GeneralHit(c)
      /\ loginLim' = IF app = "server" /\ ~GeneralLimited(c)
                     THEN Hit(loginLim, c, loginMax) ELSE loginLim
      /\ IF cause = ""
         THEN /\ logins' = Append(logins, connecting(l))
              /\ resp' = NoResp
         ELSE /\ logins' = logins
              /\ resp' = earlyAnswer(l, cause)
      /\ attempts' = IF GeneralLimited(c) \/ attempts[c] > loginMax
                     THEN attempts ELSE [attempts EXCEPT ![c] = @ + 1]
      /\ nreq' = nreq + 1
      /\ UNCHANGED <<app, nodeEnv, tests, clock, sessions, loggedOut, issued,
                     nextSweep>>

\* a connect result that is applied whenever it arrives
connectSettledLate(l, o) ==
  IF o.kind = "uid"
  THEN [l EXCEPT !.connect = "settled", !.winner = "connect", !.pc = "read",
                 !.uid = o.uid]
  ELSE Answered([l EXCEPT !.connect = "settled", !.winner = "connect"])

\* odoo.connect() settles: it decides the race unless the timer already has
connectSettled(l, o) ==
  IF l.pc # "race" THEN [l EXCEPT !.connect = "settled"]
  ELSE IF o.kind = "uid"
  THEN [l EXCEPT !.connect = "settled", !.winner = "connect", !.pc = "read",
                 !.uid = o.uid]
  ELSE Answered([l EXCEPT !.connect = "settled", !.winner = "connect"])

connectAnswer(l, o) ==
  IF l.pc # "race" \/ o.kind = "uid" THEN NoResp
  ELSE IF o.kind = "falsy"
  THEN LoginAnswer(l, "falsy", 401, "Authentication failed", NoDetails)
  ELSE catchLogin(l, "throw", o.msg)

ConnectSettled(i, o) ==
  /\ i \in 1..Len(logins)
  /\ logins[i].connect = "pending"
  /\ logins' = [logins EXCEPT ![i] = connectSettled(logins[i], o)]
  /\ resp' = connectAnswer(logins[i], o)
  /\ UNCHANGED <<app, nodeEnv, tests, clock, sessions, general, loginLim, loggedOut,
                 attempts, issued, nextSweep, nreq>>

\* the setTimeout callback rejects timeoutPromise
timeoutFired(l) ==
  IF l.pc = "race"
  THEN Answered([l EXCEPT !.timer = "fired", !.winner = "timer"])
  ELSE [l EXCEPT !.timer = "fired"]

timeoutAnswer(l) ==
  IF l.pc = "race" THEN catchLogin(l, "timeout", ConnectionTimeout) ELSE NoResp

TimeoutFired(i) ==
  /\ i \in 1..Len(logins)
  /\ logins[i].timer = "pending"
  /\ logins' = [logins EXCEPT ![i] = timeoutFired(logins[i])]
  /\ resp' = timeoutAnswer(logins[i])
  /\ UNCHANGED <<app, nodeEnv, tests, clock, sessions, general, loginLim, loggedOut,
                 attempts, issued, nextSweep, nreq>>

\* a profile that also carries the password the client connected with
userDataWithPassword(l, rec) ==
  [id |-> l.uid, name |-> rec.name, email |-> rec.email, login |-> rec.login,
   password |-> l.sent.password]

userData(l, rec) ==
  [id |-> l.uid, name |-> rec.name, email |-> rec.email, login |-> rec.login]

\* a record whose lastAccess starts at the epoch
sessionRecordEpoch(l, rec) ==
  [user |-> userData(l, rec),
   odooClient |-> l.sent,
   createdAt |-> clock,
   lastAccess |-> IF app = "server" THEN 0 ELSE Absent]

sessionRecord(l, rec) ==
  [user |-> userData(l, rec),
   odooClient |-> l.sent,
   createdAt |-> clock,
   lastAccess |-> IF app = "server" THEN clock ELSE Absent]

\* whether the second reading of Date.now() in jwt.sign falls into the
\* second after the first reading's
Rollover == {0, 1}

\* jwt.sign({userId, email, iat, exp}, JWT_SECRET): iat and exp come from two
\* readings of the clock
jwtSign(l, rec, d) ==
  [userId |-> l.uid,
   email |-> rec.email,
   iat |-> clock \div 1000,
   exp |-> ((clock \div 1000) + d) + (60 * 60)]

\* the answer after odoo.read() settled; with records the session is stored
\* first, and the log line of server.js then reads userData.login.replace
readAnswer(l, o, tok) ==
  IF o.kind = "throw" THEN catchLogin(l, "readThrow", o.msg)
  ELSE IF o.kind = "empty"
  THEN LoginAnswer(l, "noRecord", 500, "Failed to get user information",
                   NoDetails)
  ELSE IF app = "server" /\ o.login = NotAString
  THEN catchLogin(l, "typeError", NotAFunction)
  ELSE [LoginAnswer(l, "ok", 200, "", NoDetails) EXCEPT
          !.token = tok, !.user = userData(l, Record(l.uid, o))]

\* server.js mints the signed token after userData is built and never
\* sends it; server-test.js mints none
minted(l, o, d) ==
  IF app = "server" /\ o.kind = "records"
  THEN jwtSign(l, Record(l.uid, o), d) ELSE NoJwt

\* a login that stores the session before it looks at the record
storeSessionAlways(store, l, o, tok) ==
  IF o.kind # "throw"
  THEN Set(store, tok, sessionRecord(l, Record(l.uid, o)))
  ELSE store

\* sessions.set(sessionToken, {...})
storeSession(store, l, o, tok) ==
  IF o.kind = "records"
  THEN Set(store, tok, sessionRecord(l, Record(l.uid, o)))
  ELSE store

ReadSettled(i, o, r, d) ==
  /\ i \in 1..Len(logins)
  /\ logins[i].pc = "read"
  /\ logins' = [logins EXCEPT ![i] = Answered(logins[i])]
  /\ resp' = [readAnswer(logins[i], o, Opaque(clock, r)) EXCEPT
                !.jwt = minted(logins[i], o, d)]
  /\ sessions' = storeSession(sessions, logins[i], o, Opaque(clock, r))
  /\ issued' = IF resp'.status = 200
               THEN Set(issued, resp'.token,
                        (IF resp'.token \in DOMAIN issued
                         THEN issued[resp'.token] ELSE {}) \cup {resp'.user})
               ELSE issued
  /\ UNCHANGED <<app, nodeEnv, tests, clock, general, loginLim, loggedOut, attempts,
                 nextSweep, nreq>>

-----------------------------------------------------------------------------
(* Specifications *)

\* Spec: the life of sessions.  One caller, a production run of either
\* application, logins with a valid body, an upstream that answers.
SpecCallers == {"A"}
SpecConnect == {o \in ConnectOutcomes : o.kind # "throw"}
SpecRead == {o \in ReadOutcomes : o.kind = "records" /\ o.login = "string"}

\* a login request that reaches odoo.connect()
Connects(c, u, p) == earlyReturn(c, u, p) = ""

Next ==
  \/ \E c \in SpecCallers :
       /\ nreq < MaxRequests
       /\ Len(logins) < MaxLogins
       /\ LoginRequest(c, UserOK, PassOK)
  \/ \E i \in 1..MaxLogins, o \in SpecConnect : ConnectSettled(i, o)
  \/ \E i \in 1..MaxLogins : TimeoutFired(i)
  \/ \E i \in 1..MaxLogins, r \in 1..MaxRand, o \in SpecRead, d \in Rollover :
       ReadSettled(i, o, r, d)
  \/ \E c \in SpecCallers, h \in Headers :
       nreq < MaxRequests /\ GetUser(c, h)
  \/ \E c \in SpecCallers, h \in Headers, b \in Bodies :
       nreq < MaxRequests /\ Logout(c, h, b)
  \/ Sweep
  \/ clock < MaxTicks * Tick /\ AdvanceClock

SpecInit == Init /\ nodeEnv = "production"

Spec == SpecInit /\ [][Next]_vars

\* SpecLogin: the login route.  Every runtime environment, every body of
\* Usernames \X Passwords, every answer of the upstream; one login reaches
\* the verifier, the others are answered before.
NextLogin ==
  \/ \E c \in SpecCallers, u \in Usernames, p \in Passwords :
       /\ nreq < MaxRequests
       /\ Connects(c, u, p) => logins = <<>>
       /\ LoginRequest(c, u, p)
  \/ \E o \in ConnectOutcomes : ConnectSettled(1, o)
  \/ TimeoutFired(1)
  \/ \E o \in ReadOutcomes, d \in Rollover : ReadSettled(1, o, 1, d)

SpecLogin == Init /\ [][NextLogin]_vars

\* SpecAttempts: the login limiter of server.js.  One caller repeats logins
\* of every body across a window; one login reaches the verifier.
NextAttempts ==
  \/ \E c \in SpecCallers, u \in Usernames, p \in Passwords :
       /\ nreq < MaxAttempts
       /\ Connects(c, u, p) => logins = <<>>
       /\ LoginRequest(c, u, p)
  \/ \E o \in SpecConnect : ConnectSettled(1, o)
  \/ TimeoutFired(1)
  \/ \E o \in SpecRead, d \in Rollover : ReadSettled(1, o, 1, d)
  \/ clock < AttemptTicks * Tick /\ AdvanceClock

ServerInit == Init /\ app = "server" /\ nodeEnv = "production"

SpecAttempts == ServerInit /\ [][NextAttempts]_vars

\* SpecLimiter: the general limiter of server.js.  One caller sends logouts
\* and protected requests until the limiter answers; one login reaches the
\* verifier.
NextLimiter ==
  \/ \E c \in SpecCallers :
       /\ nreq < generalMax + MaxRequests
       /\ logins = <<>>
       /\ LoginRequest(c, UserOK, PassOK)
  \/ \E o \in SpecConnect : ConnectSettled(1, o)
  \/ TimeoutFired(1)
  \/ \E o \in SpecRead, d \in Rollover : ReadSettled(1, o, 1, d)
  \/ \E c \in SpecCallers, h \in Headers \cup NoTokenHeaders :
       nreq < generalMax + MaxRequests /\ GetUser(c, h)
  \/ \E c \in SpecCallers, h \in Headers, b \in Bodies :
       nreq < generalMax + MaxRequests /\ Logout(c, h, b)
  \/ \E c \in SpecCallers, h \in NoTokenHeaders :
       nreq < generalMax + MaxRequests /\ OdooTestRequest(c, h)

SpecLimiter == ServerInit /\ [][NextLimiter]_vars

\* SpecOdoo: the protected routes.  One caller, a production run of either
\* application, one login, one POST /odoo/test in flight at a time.
NextOdoo ==
  \/ \E c \in SpecCallers :
       /\ nreq < MaxRequests
       /\ logins = <<>>
       /\ LoginRequest(c, UserOK, PassOK)
  \/ \E o \in SpecConnect : ConnectSettled(1, o)
  \/ TimeoutFired(1)
  \/ \E o \in SpecRead, d \in Rollover : ReadSettled(1, o, 1, d)
  \/ \E c \in SpecCallers, h \in Headers \cup NoTokenHeaders :
       nreq < MaxRequests /\ GetUser(c, h)
  \/ \E c \in SpecCallers, h \in Headers, b \in Bodies :
       nreq < MaxRequests /\ Logout(c, h, b)
  \/ \E c \in SpecCallers, h \in Headers \cup NoTokenHeaders :
       /\ nreq < MaxRequests
       /\ Len(tests) < MaxTests
       /\ OdooTestRequest(c, h)
  \/ \E j \in 1..MaxTests, q \in QueryOutcomes : OdooTestSettled(j, q)
  \/ Sweep
  \/ clock < OdooTicks * Tick /\ AdvanceClock

SpecOdoo == SpecInit /\ [][NextOdoo]_vars

\* SpecReaper: the session cleanup of server.js.  One login, protected
\* requests, and two hours of the clock.
NextReaper ==
  \/ \E c \in SpecCallers :
       /\ nreq < MaxRequests
       /\ logins = <<>>
       /\ LoginRequest(c, UserOK, PassOK)
  \/ \E o \in SpecConnect : ConnectSettled(1, o)
  \/ \E o \in SpecRead, d \in Rollover : ReadSettled(1, o, 1, d)
  \/ \E c \in SpecCallers, h \in Headers :
       nreq < MaxRequests /\ GetUser(c, h)
  \/ Sweep
  \/ clock < ReaperTicks * Tick /\ AdvanceClock

SpecReaper == ServerInit /\ [][NextReaper]_vars

\* SpecShared: two callers of server.js in one window.  Their logins reach
\* the verifier and stay in flight; requests without a token go between.
NextShared ==
  \/ \E c \in Callers :
       nreq < MaxShared /\ LoginRequest(c, UserOK, PassOK)
  \/ \E c \in Callers :
       nreq < MaxShared /\ GetUser(c, NoHeader)

SpecShared == ServerInit /\ [][NextShared]_vars

\* SpecCeilings: both limiters of server.js in one window.  One caller sends
\* logins that validation rejects and requests without a token until the
\* general limiter answers.
NextCeilings ==
  \/ \E c \in SpecCallers :
       nreq < generalMax + MaxRequests /\ LoginRequest(c, UserNoAt, PassOK)
  \/ \E c \in SpecCallers :
       nreq < generalMax + MaxRequests /\ GetUser(c, NoHeader)

SpecCeilings == ServerInit /\ [][NextCeilings]_vars

\* SpecSweep: one cleanup pass of server.js, over every store of up to three
\* sessions whose idle times lie on and around the threshold.
SweepTokens == {Opaque(0, 1), Opaque(0, 2), Opaque(Tick, 1)}
IdleTimes == {0, oneHour - 1, oneHour, oneHour + 1}
SweptRecords(tok) ==
  {[user |-> [id |-> 7, name |-> "U", email |-> "u@x.co", login |-> "u@x.co"],
    odooClient |-> [username |-> UserOK, password |-> PassOK],
    createdAt |-> tok.t,
    lastAccess |-> (2 * oneHour) - idle] : idle \in IdleTimes}
SweptStores ==
  UNION {{f \in [D -> UNION {SweptRecords(t) : t \in D}] :
            \A t \in D : f[t] \in SweptRecords(t)} : D \in SUBSET SweepTokens}

SweepInit ==
  /\ app = "server"
  /\ nodeEnv = "production"
  /\ clock = 2 * oneHour
  /\ sessions \in SweptStores
  /\ general = [c \in Callers |-> NoHits]
  /\ loginLim = [c \in Callers |-> NoHits]
  /\ logins = <<>>
  /\ tests = <<>>
  /\ resp = NoResp
  /\ loggedOut = {}
  /\ attempts = [c \in Callers |-> 0]
  /\ issued = <<>>
  /\ nextSweep = 2 * oneHour
  /\ nreq = 0

NextSweep == Sweep

SpecSweep == SweepInit /\ [][NextSweep]_vars

-----------------------------------------------------------------------------
(* Properties *)

\* C1: for a bearer token that is a key of the session store, the gate of
\* server.js decides on idle time only: it answers 401 'Token expired' and
\* evicts the entry exactly when more than one hour has passed since the
\* session's lastAccess, and otherwise allows the request with the
\* session's user.
C1_GateExpiresOnIdleTime ==
  (/\ app = "server"
   /\ resp.route = "user"
   /\ resp.status # 429
   /\ resp.headSess # NoSession)
  => IF clock - resp.headSess.lastAccess > oneHour
     THEN /\ resp.status = 401
          /\ resp.error = "Token expired"
          /\ resp.header.tok \notin DOMAIN sessions
     ELSE /\ resp.status = 200
          /\ resp.user = resp.headSess.user
          /\ resp.header.tok \in DOMAIN sessions

\* C2: once a logout with body {token: T} has been answered for a live
\* token T, a GET /auth/user with 'Authorization: Bearer T' that finds no
\* session under T is answered 401 'Invalid or expired token'.
C2_LoggedOutTokenAnswers401 ==
  (/\ resp.route = "user"
   /\ resp.header.form = "Bearer"
   /\ \E x \in loggedOut : x.tok = resp.header.tok /\ x.body
   /\ resp.headSess = NoSession)
  => /\ resp.status = 401
     /\ resp.error = "Invalid or expired token"

\* C4: an answered logout that carries a live session token in the
\* 'Authorization: Bearer' header only, with no token in the body, has
\* removed that session from the store.
C4_HeaderLogoutRemovesSession ==
  (/\ resp.route = "logout"
   /\ resp.status = 200
   /\ resp.body = NoToken
   /\ resp.header.form = "Bearer"
   /\ resp.headSess # NoSession)
  => resp.header.tok \notin DOMAIN sessions

\* C10: a GET /auth/user with 'Authorization: Bearer T', for a token T that
\* one 200 login answer returned, with user U, that no logout has named and
\* whose session has not been idle for more than one hour, is answered 200
\* with the user U.
C10_UserOfIssuedToken ==
  (/\ resp.route = "user"
   /\ resp.header.form = "Bearer"
   /\ resp.header.tok \in DOMAIN issued
   /\ Cardinality(issued[resp.header.tok]) = 1
   /\ resp.header.tok \notin LoggedOutTokens
   /\ resp.headSess # NoSession
   /\ app = "server" => clock - resp.headSess.lastAccess <= oneHour)
  => /\ resp.status = 200
     /\ issued[resp.header.tok] = {resp.user}

\* C9: the first of odoo.connect() and the 30 s timer to settle decides the
\* login alone.  When the timer fires in the race the login is answered 401
\* 'Authentication failed' and no session is stored; a connect result that
\* settles after that, with a uid or without, sends no answer, stores no
\* session, leaves the limiters and the issued tokens as they were, and the
\* login stays answered once, by the timer.
C9_RaceDecidedByFirst ==
  [][\A i \in 1..Len(logins) :
       /\ (logins[i].pc = "race" /\ logins[i].timer = "pending"
             /\ logins'[i].timer = "fired")
          => /\ resp'.status = 401
             /\ resp'.error = "Authentication failed"
             /\ logins'[i].winner = "timer"
             /\ logins'[i].answers = 1
             /\ sessions' = sessions
       /\ (logins[i].winner = "timer" /\ logins[i].connect = "pending"
             /\ logins'[i].connect = "settled")
          => /\ resp' = NoResp
             /\ sessions' = sessions
             /\ issued' = issued
             /\ general' = general
             /\ loginLim' = loginLim
             /\ loggedOut' = loggedOut
       /\ logins[i].winner = "timer"
          => /\ logins'[i].winner = "timer"
             /\ logins'[i].pc = "done"
             /\ logins'[i].answers = 1]_vars

\* C9 witness: a login the timer decided whose connect result arrived later
C9_LateConnect ==
  \E i \in 1..Len(logins) :
    /\ logins[i].winner = "timer"
    /\ logins[i].connect = "settled"
    /\ logins[i].answers = 1

\* whether a body of Usernames \X Passwords fails the shape validation of
\* server.js, as the claim words it
invalidPayload ==
  [u \in Usernames |-> [p \in Passwords |->
     \/ u = Missing
     \/ ~isEmail(u)
     \/ Len(u) < usernameMin
     \/ Len(u) > usernameMax
     \/ p = Missing
     \/ p = <<>>
     \/ Len(p) > passwordMax]]

\* the login request a step of SpecAttempts received: it is the last of
\* logins when it reached odoo.connect(), and is answered by the step when
\* it did not
Received ==
  IF logins' # logins THEN logins'[Len(logins')]
  ELSE [caller |-> resp'.caller, rawUser |-> resp'.rawUser,
        rawPass |-> resp'.rawPass]

C5_LoginCeiling ==
  [][\A c \in SpecCallers :
       (nreq' # nreq /\ attempts'[c] # attempts[c])
       => /\ (attempts'[c] > loginMax) <=> (resp'.cause = "login429")
          /\ resp'.cause = "login429"
             => /\ resp'.status = 429
                /\ logins' = logins
                /\ sessions' = sessions]_vars

\* C5 witness: the sixth login of a window, answered 429 while an earlier
\* login of the caller is at the verifier
C5_SixthLogin ==
  /\ resp.cause = "login429"
  /\ resp.status = 429
  /\ attempts[resp.caller] = loginMax + 1
  /\ logins # <<>>

C6_SameFailureAnswer ==
  (resp.route = "login" /\ resp.cause \in {"falsy", "throw", "timeout"})
  => /\ resp.status = 401
     /\ resp.error = "Authentication failed"
     /\ resp.details = NoDetails

\* C8: a login at the verifier was handed exactly the username and the
\* password of the request body.
C8_VerifierGetsRawCredentials ==
  \A i \in 1..Len(logins) :
    logins[i].pc \in {"race", "read"}
    => logins[i].sent = [username |-> logins[i].rawUser,
                         password |-> logins[i].rawPass]

\* C11: the signed token a login of server.js mints expires exactly one hour
\* (3600 s) after its issue time, whichever way the two readings of the
\* clock fall, and carries the id and the email of the user of the answer.
C11_SignedTokenLifetime ==
  (app = "server" /\ resp.route = "login" /\ resp.status = 200)
  => /\ resp.jwt.exp = resp.jwt.iat + 3600
     /\ resp.jwt.userId = resp.user.id
     /\ resp.jwt.email = resp.user.email

\* a step received a request to a protected route whose authorization
\* header carries no token: the step answers it, or it is the last of tests
NoTokenRequest ==
  /\ nreq' # nreq
  /\ \/ /\ resp'.route \in {"user", "test"}
        /\ SplitToken(resp'.header) = NoToken
     \/ /\ Len(tests') > Len(tests)
        /\ SplitToken(tests'[Len(tests')].header) = NoToken

\* C12, as stated: a request to a protected route without a bearer token is
\* answered 401, starts no upstream query and leaves the session store
\* unchanged.
C12_NoTokenAnswers401 ==
  [][NoTokenRequest
     => /\ resp'.status = 401
        /\ sessions' = sessions
        /\ tests' = tests]_vars

\* C12, amended: a request to a protected route without a bearer token
\* starts no upstream query and leaves the session store unchanged; it is
\* answered 401 'Access token required' when it is among the first
\* generalMax requests of the caller's window, and 429 past that ceiling.
\* (SpecLimiter keeps one window open: nreq counts the requests of the
\* window.)
C12_NoTokenRejected ==
  [][NoTokenRequest
     => /\ IF nreq' <= generalMax
           THEN resp'.status = 401 /\ resp'.error = "Access token required"
           ELSE resp'.status = 429
        /\ resp'.user = NoUser
        /\ sessions' = sessions
        /\ tests' = tests]_vars

\* C12 witness: POST /odoo/test without a header answered 401 while a
\* session is stored
C12_TestWithoutHeader ==
  /\ resp.route = "test"
  /\ resp.header = NoHeader
  /\ resp.status = 401
  /\ sessions # <<>>

\* C13: a request to a protected route whose bearer token is no key of the
\* session store and no signed token with a valid signature and an exp
\* claim in the future is answered 401 'Invalid or expired token', without
\* a user and without an upstream query.
C13_UnknownTokenAnswers401 ==
  (/\ resp.route \in {"user", "test"}
   /\ resp.header.form = "Bearer"
   /\ resp.header.tok # NoToken
   /\ resp.headSess = NoSession
   /\ ~(resp.header.tok.k = "jwt" /\ clock \div 1000 < resp.header.tok.t))
  => /\ resp.status = 401
     /\ resp.error = "Invalid or expired token"
     /\ resp.user = NoUser
     /\ resp.stats = NoStats

\* the last step answered a request of server.js to a protected route that
\* the limiter admitted and whose bearer token is a signed token with a
\* valid signature and an exp claim in the future, which is no key of the
\* session store
SignedTokenAnswered ==
  /\ app = "server"
  /\ resp.route \in {"user", "test"}
  /\ resp.status # 429
  /\ SplitToken(resp.header).k = "jwt"
  /\ clock \div 1000 < SplitToken(resp.header).t
  /\ resp.headSess = NoSession

\* the claims jwt.verify decodes from the token of the answered request
DecodedClaims ==
  [id |-> SplitToken(resp.header).r, name |-> "", email |-> "jwt", login |-> ""]

C15_SweepRemovesExactlyIdle ==
  [][nextSweep' # nextSweep
     => /\ DOMAIN sessions' =
             {t \in DOMAIN sessions : ~(clock - sessions[t].lastAccess > oneHour)}
        /\ \A t \in DOMAIN sessions :
             /\ clock - sessions[t].lastAccess = oneHour
                  => t \in DOMAIN sessions'
             /\ clock - sessions[t].lastAccess = oneHour + 1
                  => t \notin DOMAIN sessions'
        /\ \A t \in DOMAIN sessions' : sessions'[t] = sessions[t]
        /\ resp'.cleaned = Cardinality(DOMAIN sessions)
                             - Cardinality(DOMAIN sessions')]_vars

\* C15 witness: a pass has removed one session and kept one idle for exactly
\* one hour
C15_KeptAtThreshold ==
  /\ nextSweep > clock
  /\ resp.cleaned = 1
  /\ \E t \in DOMAIN sessions : clock - sessions[t].lastAccess = oneHour

\* C16: with the cleanup of server.js running every 30 minutes, a session
\* idle for more than one hour is gone after the first cleanup that follows,
\* so no record of the store is ever idle for more than 1 hour 30 minutes.
C16_IdleSessionsAreSwept ==
  app = "server"
  => \A t \in DOMAIN sessions :
       /\ clock - sessions[t].lastAccess <= oneHour + sweepInterval
       /\ (clock - sessions[t].lastAccess > oneHour
             => nextSweep - sessions[t].lastAccess <= oneHour + sweepInterval)

\* C16 witness: a cleanup has just removed the one session of the store,
\* which had been idle for more than one hour
C16_SweptIdleSession ==
  /\ app = "server"
  /\ resp.cleaned = 1
  /\ sessions = <<>>
  /\ issued # <<>>
  /\ clock > oneHour

\* C17: no two successful logins receive the same token, also within one
\* millisecond: the token of a successful login was returned to no earlier
\* login and is no key of the store when its session is stored, so that
\* storing the session overwrites no record.
C17_TokensNeverReused ==
  [][(resp'.route = "login" /\ resp'.status = 200)
     => /\ resp'.token \notin DOMAIN issued
        /\ resp'.token \notin DOMAIN sessions]_vars

\* C18: a request of server.js to GET /auth/user or POST /odoo/test that is
\* answered 200 through a session of the store, whatever the form of the
\* authorization header the gate accepted, leaves that session with
\* lastAccess equal to the current time.
C18_AccessSetsLastAccess ==
  (/\ app = "server"
   /\ resp.route \in {"user", "test"}
   /\ resp.status = 200
   /\ resp.headSess # NoSession
   /\ SplitToken(resp.header) \in DOMAIN sessions)
  => sessions[SplitToken(resp.header)].lastAccess = clock

\* C19: the user stored in a session is a snapshot taken at login: as long
\* as the session stays in the store under its token, no step (access,
\* touch, another login, a logout, a cleanup) changes its id, name, email or
\* login.
C19_StoredUserImmutable ==
  [][\A t \in (DOMAIN sessions) \cap (DOMAIN sessions') :
       sessions'[t].user = sessions[t].user]_vars

\* C20: when odoo.connect has accepted the credentials and odoo.read returns
\* no record, the login is answered 500 'Failed to get user information',
\* which is not the answer to bad credentials (401 'Authentication failed'),
\* returns no token and no user, and stores no session.
C20_NoRecordAnswers500 ==
  [][\A i \in 1..MaxLogins, r \in 1..MaxRand, d \in Rollover,
        o \in {x \in ReadOutcomes : x.kind = "empty"} :
       ReadSettled(i, o, r, d)
       => /\ resp'.route = "login"
          /\ resp'.status = 500
          /\ resp'.error = "Failed to get user information"
          /\ resp'.status # 401
          /\ resp'.error # "Authentication failed"
          /\ resp'.token = NoToken
          /\ resp'.user = NoUser
          /\ sessions' = sessions
          /\ issued' = issued]_vars

\* C20 witness: a login that reached odoo.read, whose profile fetch
\* returned no record, has been answered 500 and the store is empty
C20_NoRecordAnswered ==
  /\ resp.route = "login"
  /\ resp.cause = "noRecord"
  /\ resp.status = 500
  /\ logins # <<>>
  /\ sessions = <<>>

\* the fields of the user a response may carry
PublicFields == {"id", "name", "email", "login"}

Admitted(c) == {i \in DOMAIN logins : logins[i].caller = c}

\* C22: the limiters count per caller and one request at a time: of the K
\* logins a caller has sent concurrently in one window, exactly min(K, 5)
\* are admitted, whatever the other caller has sent, and a request of one
\* caller is counted once, for that caller only: the login counter of a
\* caller is the number of logins it has sent, and the general counters
\* add up to the number of requests received.
C22_CountersPerCaller ==
  /\ \A c \in Callers :
       /\ Cardinality(Admitted(c))
            = IF attempts[c] < loginMax THEN attempts[c] ELSE loginMax
       /\ loginLim[c].hits = attempts[c]
       /\ attempts[c] = 0 => loginLim[c] = NoHits
  /\ general["A"].hits + general["B"].hits = nreq

\* C22 witness: each caller has sent six logins, five of which are in flight
C22_BothAtCeiling ==
  /\ attempts["A"] = loginMax + 1
  /\ attempts["B"] = loginMax + 1
  /\ Cardinality(Admitted("A")) = loginMax
  /\ Cardinality(Admitted("B")) = loginMax
  /\ resp.status = 429

\* C23: whichever of the upstream queries of a POST /odoo/test fail, the
\* request is answered 200 with the result of every query that succeeded
\* and an empty result (count 0, no sample) in place of every one that
\* failed.
C23_QueriesFailIndependently ==
  [][\A j \in 1..MaxTests, q \in QueryOutcomes :
       OdooTestSettled(j, q)
       => /\ resp'.route = "test"
          /\ resp'.status = 200
          /\ resp'.error = ""
          /\ resp'.stats.partnerCount = Found(q, "partner")
          /\ resp'.stats.userCount = Found(q, "users")
          /\ resp'.stats.samplePartners = Found(q, "sample")]_vars

\* the message holds one of the sensitive words, in any letter case
Sensitive(s) ==
  \E i \in 1..Len(s), k \in 1..Len(sensitivePatterns) :
    MatchesAt(SubSeq(s, i, Len(s)), sensitivePatterns[k])

\* C24: the message of a caught error that an answer carries (the details of
\* a failed login or of a failed POST /odoo/test) holds none of the words
\* password, token, secret, key, database and connection, in any letter
\* case, and outside a development run the answer carries no details at all.
C24_ErrorDetailsRedacted ==
  (resp.route \in {"login", "test"} /\ resp.status \in {401, 500})
  => /\ ~Sensitive(resp.details)
     /\ nodeEnv # "development" => resp.details = NoDetails

\* C25: a login is answered exactly once within the 30 seconds of its
\* timer, whatever the upstream does: once the timer of a login has fired,
\* the login has been answered, also when connect had succeeded and the
\* profile fetch has not settled.
C25_AnsweredWhenTimerFired ==
  \A i \in DOMAIN logins :
    logins[i].timer = "fired"
    => logins[i].pc = "done" /\ logins[i].answers = 1

\* C26: the store gains a record only with a login that is answered 200,
\* so that every key of the store is a token that a 200 login answer
\* returned.
C26_StoredTokensWereReturned ==
  DOMAIN sessions \subseteq DOMAIN issued

\* C27: in a window of server.js, a login is answered by the general limiter
\* when it is past the first generalMax requests of the caller, else by the
\* login limiter when it is past the caller's first loginMax logins, and is
\* admitted otherwise; a request to another route is rejected past the
\* general ceiling only and leaves the login counter as it was.
\* (SpecCeilings keeps one window open: nreq counts its requests and
\* attempts the logins that reached the login limiter.)
C27_BothCeilings ==
  [][nreq' # nreq
     => IF resp'.route = "login"
        THEN /\ resp'.cause = "general429" <=> nreq' > generalMax
             /\ resp'.cause = "login429"
                  <=> (nreq' <= generalMax /\ attempts'["A"] > loginMax)
             /\ resp'.status = 429
                  <=> resp'.cause \in {"general429", "login429"}
             /\ nreq' > generalMax => loginLim' = loginLim
        ELSE /\ resp'.status = 429 <=> nreq' > generalMax
             /\ loginLim' = loginLim
             /\ attempts' = attempts]_vars

\* C27 witness: a login past both ceilings has been answered by the general
\* limiter
C27_LoginPastBothCeilings ==
  /\ resp.route = "login"
  /\ resp.cause = "general429"
  /\ attempts["A"] > loginMax
  /\ nreq > generalMax

\* C28: every login that reaches the login limiter of server.js adds one to
\* the caller's counter of the window, whatever answers it: the counter is
\* the number of the caller's logins of the window, no later answer (400,
\* 401, 500 or 200) gives the unit back, and after five logins of any kind
\* the sixth is answered 429 by the login limiter.
C28_EveryAttemptCounts ==
  [][/\ nreq' # nreq
          => /\ loginLim'["A"].hits = attempts'["A"]
             /\ attempts["A"] = loginMax => resp'.cause = "login429"
     /\ (nreq' = nreq /\ clock' = clock) => loginLim' = loginLim]_vars

\* C28 witness: the sixth login of a window is answered 429 after one login
\* was answered at the verifier without a session and the others before
C28_SixthAfterFailures ==
  /\ resp.cause = "login429"
  /\ loginLim["A"].hits = loginMax + 1
  /\ Len(logins) = 1
  /\ logins[1].pc = "done"
  /\ sessions = <<>>

\* C29: for every authorization header with which the gate of server.js
\* authenticates a request through a session of the store, the handler's
\* own reading of the header yields the same store key, and the handler
\* does not answer 401 after the gate has allowed the request.
C29_HandlerResolvesGateSession ==
  (/\ app = "server"
   /\ resp.route \in {"user", "test"}
   /\ resp.status # 429
   /\ resp.headSess # NoSession
   /\ ~(clock - resp.headSess.createdAt > oneHour))
  => /\ ReplaceBearer(resp.header) = SplitToken(resp.header)
     /\ resp.status # 401

\* C30: every session record of server.js has lastAccess >= createdAt, so a
\* session that the gate accepts now (its age is within one hour) is not
\* among those a cleanup pass run now would remove.
C30_SweepSparesGateAccepted ==
  app = "server"
  => \A t \in DOMAIN sessions :
       /\ sessions[t].lastAccess >= sessions[t].createdAt
       /\ ~gateExpired(sessions[t]) => t \notin sweepExpired(sessions, clock)

\* C30 witness: a cleanup pass has run and kept a session that the gate
\* accepts and that was accessed after its login
C30_KeptAcceptedSession ==
  /\ app = "server"
  /\ nextSweep > clock
  /\ clock >= sweepInterval
  /\ resp.cleaned = 0
  /\ resp.route = "none"
  /\ \E t \in DOMAIN sessions :
       /\ ~gateExpired(sessions[t])
       /\ sessions[t].lastAccess > sessions[t].createdAt

\* C31: in server.js a deleted session is never put back: the late
\* lastAccess write of a POST /odoo/test that was in flight adds no key to
\* the store, and a token that an answered logout has named is no key of
\* the store afterwards, so that no later request is authenticated through
\* the store with it.
C31_DeletedSessionStaysDeleted ==
  [][app = "server"
     => /\ \A j \in 1..MaxTests, q \in QueryOutcomes :
             OdooTestSettled(j, q) => DOMAIN sessions' = DOMAIN sessions
        /\ LoggedOutTokens' \cap DOMAIN sessions' = {}]_vars

\* C32: a logout removes at most the records stored under the token of its
\* body and under the token of its bearer header: the store gains no key,
\* every other record is unchanged (user, Odoo client, createdAt,
\* lastAccess), and a logout that names no key of the store changes nothing.
C32_LogoutRemovesOnlyNamed ==
  [][resp'.route = "logout"
     => /\ DOMAIN sessions' \subseteq DOMAIN sessions
        /\ \A t \in DOMAIN sessions :
             t \notin {resp'.body, SplitToken(resp'.header)}
             => t \in DOMAIN sessions' /\ sessions'[t] = sessions[t]
        /\ {resp'.body, SplitToken(resp'.header)} \cap DOMAIN sessions = {}
             => sessions' = sessions]_vars

\* C32 witness: a logout has removed the session its body named and another
\* session is still stored
C32_OtherSessionKept ==
  /\ resp.route = "logout"
  /\ resp.status = 200
  /\ resp.bodySess # NoSession
  /\ resp.body \notin DOMAIN sessions
  /\ sessions # <<>>

\* C33: the two token forms of server.js have independent lifetimes: the
\* gate accepts a signed token exactly until its own exp claim, whichever
\* sessions have been deleted (by logout, by the gate or by the cleanup) or
\* are still stored, and a request with a signed token, expired or not,
\* leaves the store as it was.
C33_IndependentLifetimes ==
  [][(/\ app = "server"
      /\ resp'.route = "user"
      /\ resp'.status # 429
      /\ SplitToken(resp'.header).k = "jwt")
     => /\ resp'.status = 200 <=> clock \div 1000 < SplitToken(resp'.header).t
        /\ resp'.status \in {200, 403}
        /\ sessions' = sessions]_vars

\* C33 witness: the gate has accepted a signed token after a logout deleted
\* the only session
C33_SignedAfterLogout ==
  /\ app = "server"
  /\ resp.route = "user"
  /\ resp.status = 200
  /\ SplitToken(resp.header).k = "jwt"
  /\ loggedOut # {}
  /\ sessions = <<>>

\* C34: when the gate of server.js rejects a store token as expired it
\* evicts that record and no other; the store only ever gains keys made at
\* the current time, so the evicted token, made more than an hour before,
\* is never a key again: every request received later with it is rejected
\* as an invalid token, and 'Token expired' is answered once per session at
\* most.
C34_ExpiredReportedOnce ==
  [][app = "server"
     => /\ (resp'.route \in {"user", "test"} /\ resp'.error = "Token expired")
             => /\ resp'.status = 401
                /\ SplitToken(resp'.header) \in DOMAIN sessions
                /\ SplitToken(resp'.header) \notin DOMAIN sessions'
                /\ clock - SplitToken(resp'.header).t > oneHour
                /\ \A u \in (DOMAIN sessions) \ {SplitToken(resp'.header)} :
                     u \in DOMAIN sessions' /\ sessions'[u] = sessions[u]
        /\ \A u \in (DOMAIN sessions') \ (DOMAIN sessions) : u.t = clock'
        /\ (/\ nreq' # nreq
            /\ resp'.route \in {"user", "test"}
            /\ resp'.status # 429
            /\ SplitToken(resp'.header).k = "opaque"
            /\ SplitToken(resp'.header) \notin DOMAIN sessions)
             => /\ resp'.status = 403
                /\ resp'.error = "Invalid or expired token"]_vars

\* C34 witness: the gate has answered 'Token expired', evicted the session
\* of the token and kept another session
C34_EvictedOneOfTwo ==
  /\ app = "server"
  /\ resp.error = "Token expired"
  /\ resp.headSess # NoSession
  /\ SplitToken(resp.header) \notin DOMAIN sessions
  /\ sessions # <<>>

====
